---- MODULE Spec2Model ----
(***************************************************************************)
(* Model of pkg/util/types/pvc.go: the resolution layer that answers       *)
(* storage-provisioning questions about persistent volume claims from a    *)
(* read-only indexed store (cache.Store).                                  *)
(*                                                                         *)
(* Every function of the file is a pure query.  Each action below is one   *)
(* call of one function: it draws the call's inputs (the store content     *)
(* included), applies the function as the code computes it and records     *)
(* the arguments, the returned values and the log of store accesses.       *)
(*                                                                         *)
(* Go pointers and errors are modelled as options: <<>> is nil and <<v>>   *)
(* is a non-nil pointer to v.                                              *)
(***************************************************************************)
EXTENDS Integers, Sequences, FiniteSets, TLC

VARIABLES op, args, ret, calls

vars == <<op, args, ret, calls>>

None == <<>>

Some(v) == <<v>>

----------------------------------------------------------------------------
(* Bounds and input domains *)

MaxVolumes == 2

MaxClasses == 2

MaxAnnotations == 2

Namespaces == {"default", "kube-system"}

ClaimNames == {"c1", "c2"}

VolumeNames == {"v1", "v2"}

ClassNamePool == <<"fast", "slow", "gold", "bulk">>

ClassNames == {ClassNamePool[i] : i \in 1..MaxClasses}

\* k8sv1.PersistentVolumeMode
PersistentVolumeBlock == "Block"

PersistentVolumeFilesystem == "Filesystem"

\* storagev1.VolumeBindingMode
VolumeBindingImmediate == "Immediate"

VolumeBindingWaitForFirstConsumer == "WaitForFirstConsumer"

DefaultClassAnnotation == "storageclass.kubernetes.io/is-default-class"

----------------------------------------------------------------------------
(* Objects held by the stores *)

PersistentVolumeClaim(namespace, name, volumeMode, storageClassName) ==
    [type |-> "PersistentVolumeClaim", namespace |-> namespace, name |-> name,
     volumeMode |-> volumeMode, storageClassName |-> storageClassName]

StorageClass(name, annotations, volumeBindingMode) ==
    [type |-> "StorageClass", name |-> name, annotations |-> annotations,
     volumeBindingMode |-> volumeBindingMode]

\* An object of a type the caller does not expect.
Pod(namespace, name) == [type |-> "Pod", namespace |-> namespace, name |-> name]

\* A key whose GetByKey fails: the store holds no readable object for it.
Unreadable == [type |-> "<unreadable>"]

\* Go: m[k] on a map[string]string yields "" for a missing key.
MapGet(m, k) == IF k \in DOMAIN m THEN m[k] ELSE ""

----------------------------------------------------------------------------
(* Errors: kind, the values interpolated into the message, the wrapped     *)
(* error if any.                                                           *)

Error(kind, msg, detail, cause) ==
    [kind |-> kind, msg |-> msg, detail |-> detail, cause |-> cause]

\* The opaque error of the store itself.
StoreError(key) == Error("StoreError", "store failure", <<key>>, None)

----------------------------------------------------------------------------
(* cache.Store: a keyed, listable collection.  A store is a function from  *)
(* the keys it holds to objects (or Unreadable).                           *)

GetByKey(store, key) ==
    IF key \notin DOMAIN store
    THEN [obj |-> None, exists |-> FALSE, err |-> None]
    ELSE IF store[key] = Unreadable
         THEN [obj |-> None, exists |-> FALSE, err |-> Some(StoreError(key))]
         ELSE [obj |-> Some(store[key]), exists |-> TRUE, err |-> None]

StoreObjects(store) == {store[k] : k \in DOMAIN store} \ {Unreadable}

\* List() returns the objects in an order the store does not fix.
Listings(store) ==
    LET S == StoreObjects(store)
    IN  {l \in [1..Cardinality(S) -> S] : \A o \in S : \E i \in DOMAIN l : l[i] = o}

----------------------------------------------------------------------------
(* pvc.go *)

KeyOf(namespace, claimName) == namespace \o "/" \o claimName

\* isPVCBlock with an unset volume mode taken for Block.
isPVCBlockUnsetIsBlock(pvc) ==
    pvc.volumeMode = None \/ pvc.volumeMode[1] = PersistentVolumeBlock

isPVCBlock(pvc) ==
    pvc.volumeMode # None /\ pvc.volumeMode[1] = PersistentVolumeBlock

\* IsPVCBlockFromStore dropping the store's error.
IsPVCBlockFromStoreSwallowing(store, namespace, claimName) ==
    LET r == GetByKey(store, KeyOf(namespace, claimName))
    IN  IF r.err # None \/ ~r.exists
        THEN [pvc |-> None, exists |-> r.exists, isBlockDevice |-> FALSE, err |-> None]
        ELSE IF r.obj[1].type = "PersistentVolumeClaim"
             THEN [pvc |-> r.obj, exists |-> TRUE,
                   isBlockDevice |-> isPVCBlock(r.obj[1]), err |-> None]
             ELSE [pvc |-> None, exists |-> FALSE, isBlockDevice |-> FALSE,
                   err |-> Some(Error("TypeMismatch", "this is not a PVC!", <<r.obj[1]>>, None))]

IsPVCBlockFromStore(store, namespace, claimName) ==
    LET r == GetByKey(store, KeyOf(namespace, claimName))
    IN  IF r.err # None \/ ~r.exists
        THEN [pvc |-> None, exists |-> r.exists, isBlockDevice |-> FALSE, err |-> r.err]
        ELSE IF r.obj[1].type = "PersistentVolumeClaim"
             THEN [pvc |-> r.obj, exists |-> TRUE,
                   isBlockDevice |-> isPVCBlock(r.obj[1]), err |-> None]
             ELSE [pvc |-> None, exists |-> FALSE, isBlockDevice |-> FALSE,
                   err |-> Some(Error("TypeMismatch", "this is not a PVC!", <<r.obj[1]>>, None))]

PVCNameFromVirtVolume(volume) ==
    IF volume.dataVolume # None
    THEN volume.dataVolume[1]
    ELSE IF volume.persistentVolumeClaim # None
         THEN volume.persistentVolumeClaim[1]
         ELSE ""

\* The for loop of VirtVolumesToPVCMap from volume i on; acc is
\* volumeNamesPVCMap so far, log the store accesses so far.
RECURSIVE VolumesLoop(_, _, _, _, _, _)
VolumesLoop(volumes, pvcStore, namespace, i, acc, log) ==
    IF i > Len(volumes)
    THEN [acc |-> acc, err |-> None, calls |-> log]
    ELSE LET volume == volumes[i]
             claimName == PVCNameFromVirtVolume(volume)
             r == IsPVCBlockFromStore(pvcStore, namespace, claimName)
             log2 == Append(log, <<"GetByKey", KeyOf(namespace, claimName)>>)
         IN  IF claimName = ""
             THEN [acc |-> acc, calls |-> log,
                   err |-> Some(Error("MissingReference", "volume is not a PVC or Datavolume",
                                      <<volume.name>>, None))]
             ELSE IF r.err # None
                  THEN [acc |-> acc, calls |-> log2,
                        err |-> Some(Error("Wrapped", "failed to get PVC", <<>>, r.err))]
                  ELSE IF ~r.exists
                       THEN [acc |-> acc, calls |-> log2,
                             err |-> Some(Error("NotFound", "claim not found",
                                                <<claimName>>, None))]
                       ELSE VolumesLoop(volumes, pvcStore, namespace, i + 1,
                                        (volume.name :> r.pvc) @@ acc, log2)

\* VirtVolumesToPVCMap returning the mapping built so far on failure.
VirtVolumesToPVCMapPartial(volumes, pvcStore, namespace) ==
    LET r == VolumesLoop(volumes, pvcStore, namespace, 1, <<>>, <<>>)
    IN  [map |-> Some(r.acc), err |-> r.err, calls |-> r.calls]

VirtVolumesToPVCMap(volumes, pvcStore, namespace) ==
    LET r == VolumesLoop(volumes, pvcStore, namespace, 1, <<>>, <<>>)
    IN  [map |-> IF r.err # None THEN None ELSE Some(r.acc),
         err |-> r.err, calls |-> r.calls]

IsStaticallyProvisioned(pvc) ==
    pvc.storageClassName # None /\ pvc.storageClassName[1] = ""

\* IsDynamicallyProvisioned requiring the name to be present.
IsDynamicallyProvisionedNamedOnly(pvc) ==
    pvc.storageClassName # None /\ pvc.storageClassName[1] # ""

IsDynamicallyProvisioned(pvc) ==
    pvc.storageClassName = None \/ pvc.storageClassName[1] # ""

\* The loop of getDefaultStorageClass accepting any value of the annotation.
RECURSIVE DefaultLoopAnyValue(_, _)
DefaultLoopAnyValue(listing, i) ==
    IF i > Len(listing)
    THEN [sc |-> None, err |-> None]
    ELSE LET obj == listing[i]
         IN  IF obj.type # "StorageClass"
             THEN [sc |-> None,
                   err |-> Some(Error("TypeMismatch",
                                      "failed converting object to a StorageClass",
                                      <<obj.type>>, None))]
             ELSE IF MapGet(obj.annotations, DefaultClassAnnotation) # ""
                  THEN [sc |-> Some(obj), err |-> None]
                  ELSE DefaultLoopAnyValue(listing, i + 1)

\* The for loop of getDefaultStorageClass over the listing, from object i on.
RECURSIVE DefaultLoop(_, _)
DefaultLoop(listing, i) ==
    IF i > Len(listing)
    THEN [sc |-> None, err |-> None]
    ELSE LET obj == listing[i]
         IN  IF obj.type # "StorageClass"
             THEN [sc |-> None,
                   err |-> Some(Error("TypeMismatch",
                                      "failed converting object to a StorageClass",
                                      <<obj.type>>, None))]
             ELSE IF MapGet(obj.annotations, DefaultClassAnnotation) = "true"
                  THEN [sc |-> Some(obj), err |-> None]
                  ELSE DefaultLoop(listing, i + 1)

\* getDefaultStorageClass skipping the objects that are no storage class.
getDefaultStorageClassSkipping(listing) ==
    LET r == DefaultLoop(SelectSeq(listing, LAMBDA o : o.type = "StorageClass"), 1)
    IN  [sc |-> r.sc, err |-> r.err, calls |-> <<<<"List">>>>]

\* listing is what storageClassStore.List() returns to this call.
getDefaultStorageClass(listing) ==
    LET r == DefaultLoop(listing, 1)
    IN  [sc |-> r.sc, err |-> r.err, calls |-> <<<<"List">>>>]

\* GetStorageClass falling back to the default class for an unknown name.
GetStorageClassFallingBack(pvc, storageClassStore, listing) ==
    IF IsStaticallyProvisioned(pvc)
    THEN [sc |-> None, err |-> None, calls |-> <<>>]
    ELSE IF pvc.storageClassName = None
         THEN getDefaultStorageClass(listing)
         ELSE LET name == pvc.storageClassName[1]
                  r == GetByKey(storageClassStore, name)
                  log == <<<<"GetByKey", name>>>>
              IN  IF r.err # None
                  THEN [sc |-> None, err |-> r.err, calls |-> log]
                  ELSE IF ~r.exists
                       THEN LET d == getDefaultStorageClass(listing)
                            IN  [sc |-> d.sc, err |-> d.err, calls |-> log \o d.calls]
                       ELSE IF r.obj[1].type # "StorageClass"
                            THEN [sc |-> None, calls |-> log,
                                  err |-> Some(Error("TypeMismatch",
                                                     "failed converting to a StorageClass",
                                                     <<name, r.obj[1].type>>, None))]
                            ELSE [sc |-> r.obj, err |-> None, calls |-> log]

\* GetStorageClass looking the name up before testing for static provisioning.
GetStorageClassLookupFirst(pvc, storageClassStore, listing) ==
    IF pvc.storageClassName = None
    THEN getDefaultStorageClass(listing)
    ELSE LET name == pvc.storageClassName[1]
             r == GetByKey(storageClassStore, name)
             log == <<<<"GetByKey", name>>>>
         IN  IF r.err # None
             THEN [sc |-> None, err |-> r.err, calls |-> log]
             ELSE IF ~r.exists
                  THEN IF name = ""
                       THEN [sc |-> None, err |-> None, calls |-> log]
                       ELSE [sc |-> None, calls |-> log,
                             err |-> Some(Error("NotFound", "StorageClass does not exists",
                                                <<name>>, None))]
                  ELSE IF r.obj[1].type # "StorageClass"
                       THEN [sc |-> None, calls |-> log,
                             err |-> Some(Error("TypeMismatch",
                                                "failed converting to a StorageClass",
                                                <<name, r.obj[1].type>>, None))]
                       ELSE [sc |-> r.obj, err |-> None, calls |-> log]

GetStorageClass(pvc, storageClassStore, listing) ==
    IF IsStaticallyProvisioned(pvc)
    THEN [sc |-> None, err |-> None, calls |-> <<>>]
    ELSE IF pvc.storageClassName = None
         THEN getDefaultStorageClass(listing)
         ELSE LET name == pvc.storageClassName[1]
                  r == GetByKey(storageClassStore, name)
                  log == <<<<"GetByKey", name>>>>
              IN  IF r.err # None
                  THEN [sc |-> None, err |-> r.err, calls |-> log]
                  ELSE IF ~r.exists
                       THEN [sc |-> None, calls |-> log,
                             err |-> Some(Error("NotFound", "StorageClass does not exists",
                                                <<name>>, None))]
                       ELSE IF r.obj[1].type # "StorageClass"
                            THEN [sc |-> None, calls |-> log,
                                  err |-> Some(Error("TypeMismatch",
                                                     "failed converting to a StorageClass",
                                                     <<name, r.obj[1].type>>, None))]
                            ELSE [sc |-> r.obj, err |-> None, calls |-> log]

\* IsWaitForFirstConsumer taking every mode but Immediate for WaitForFirstConsumer.
IsWaitForFirstConsumerNotImmediate(pvc, storageClassStore, listing) ==
    LET r == GetStorageClass(pvc, storageClassStore, listing)
    IN  IF r.err # None
        THEN [value |-> FALSE, err |-> r.err, calls |-> r.calls]
        ELSE IF r.sc = None
             THEN [value |-> FALSE, err |-> None, calls |-> r.calls]
             ELSE [value |-> r.sc[1].volumeBindingMode # Some(VolumeBindingImmediate),
                   err |-> None, calls |-> r.calls]

IsWaitForFirstConsumer(pvc, storageClassStore, listing) ==
    LET r == GetStorageClass(pvc, storageClassStore, listing)
    IN  IF r.err # None
        THEN [value |-> FALSE, err |-> r.err, calls |-> r.calls]
        ELSE IF r.sc = None
             THEN [value |-> FALSE, err |-> None, calls |-> r.calls]
             ELSE [value |-> r.sc[1].volumeBindingMode # None
                             /\ r.sc[1].volumeBindingMode[1] = VolumeBindingWaitForFirstConsumer,
                   err |-> None, calls |-> r.calls]

\* strings.HasSuffix in place of strings.Contains.
HasSuffix(s, substr) ==
    /\ Len(s) >= Len(substr)
    /\ \A j \in 1..Len(substr) : s[Len(s) - Len(substr) + j] = substr[j]

\* strings.Contains over strings written as sequences of pieces.
Contains(s, substr) ==
    \E i \in 0..(Len(s) - Len(substr)) :
        \A j \in 1..Len(substr) : s[i + j] = substr[j]

Preallocation == <<"/", "storage.preallocation">>

ThickProvisioned == <<"/", "storage.thick-provisioned">>

\* The range loop of IsPreallocated; order is the order in which this call
\* iterates the map's keys.
RECURSIVE PreallocatedLoop(_, _, _)
PreallocatedLoop(annotations, order, i) ==
    IF i > Len(order)
    THEN FALSE
    ELSE LET a == order[i]
             value == annotations[a]
         IN  IF Contains(a, Preallocation) /\ value = "true"
             THEN TRUE
             ELSE IF Contains(a, ThickProvisioned) /\ value = "true"
                  THEN TRUE
                  ELSE PreallocatedLoop(annotations, order, i + 1)

IsPreallocated(annotations, order) == PreallocatedLoop(annotations, order, 1)

----------------------------------------------------------------------------
(* Inputs *)

VolumeModes == {None, Some(PersistentVolumeFilesystem), Some(PersistentVolumeBlock)}

ClaimKeys == ({"default"} \X ClaimNames) \cup {<<"kube-system", "c1">>}

ClaimEntries(p) ==
    {Unreadable, Pod(p[1], p[2])}
        \cup {PersistentVolumeClaim(p[1], p[2], m, None) : m \in VolumeModes}

ClaimStoreOver(P, g) ==
    [k \in {KeyOf(p[1], p[2]) : p \in P} |->
        g[CHOOSE p \in P : KeyOf(p[1], p[2]) = k]]

ClaimStores ==
    UNION {{ClaimStoreOver(P, g) :
                g \in {h \in [P -> UNION {ClaimEntries(p) : p \in P}] :
                          \A p \in P : h[p] \in ClaimEntries(p)}} :
           P \in SUBSET ClaimKeys}

\* A volume of a virtual machine spec: its name and the two claim-backed
\* members of its VolumeSource (both nil for any other source).
VolumeSources ==
    {[dataVolume |-> None, persistentVolumeClaim |-> None],
     [dataVolume |-> Some("c1"), persistentVolumeClaim |-> None],
     [dataVolume |-> None, persistentVolumeClaim |-> Some("c1")],
     [dataVolume |-> None, persistentVolumeClaim |-> Some("c2")],
     [dataVolume |-> Some("c2"), persistentVolumeClaim |-> Some("c1")]}

Volumes ==
    {[name |-> n, dataVolume |-> s.dataVolume,
      persistentVolumeClaim |-> s.persistentVolumeClaim] :
        n \in VolumeNames, s \in VolumeSources}

VolumeLists == UNION {[1..n -> Volumes] : n \in 0..MaxVolumes}

ClassAnnotations ==
    {<<>>, DefaultClassAnnotation :> "true", DefaultClassAnnotation :> "false",
     DefaultClassAnnotation :> "True"}

BindingModes ==
    {None, Some(VolumeBindingImmediate), Some(VolumeBindingWaitForFirstConsumer)}

ClassEntries(n) ==
    {Unreadable, Pod("", n)}
        \cup {StorageClass(n, a, m) : a \in ClassAnnotations, m \in BindingModes}

ClassStores ==
    UNION {{g \in [N -> UNION {ClassEntries(n) : n \in N}] :
                \A n \in N : g[n] \in ClassEntries(n)} :
           N \in SUBSET ClassNames}

\* The claims handed to the storage-class functions: only the
\* storage-class name matters to them.
ClaimsByClass ==
    {PersistentVolumeClaim("default", "c1", None, scn) :
        scn \in {None, Some("")} \cup {Some(n) : n \in ClassNames \cup {"missing"}}}

KeyPieces == {"foo.example.com", "/", "storage.preallocation", "storage.thick-provisioned"}

\* Annotation keys: every key of one or two pieces, the keys "/<piece>"
\* behind a vendor prefix, and the two hints followed by more text.
AnnotationKeys ==
    LET One == [1..1 -> KeyPieces]
        Two == [1..2 -> KeyPieces]
        Vendor == <<"foo.example.com">>
    IN  One \cup Two \cup {Vendor \o k : k \in {t \in Two : t[1] = "/"}}
            \cup {Preallocation \o Vendor, ThickProvisioned \o Vendor}

\* The sets of at most MaxAnnotations keys.
AnnotationKeySets ==
    UNION {{{s[i] : i \in 1..n} : s \in [1..n -> AnnotationKeys]} : n \in 0..MaxAnnotations}

AnnotationMaps == UNION {[K -> {"true", "false"}] : K \in AnnotationKeySets}

Orders(S) ==
    {l \in [1..Cardinality(S) -> S] : \A o \in S : \E i \in DOMAIN l : l[i] = o}

----------------------------------------------------------------------------
(* Calls *)

Init ==
    /\ op = "idle"
    /\ args = None
    /\ ret = None
    /\ calls = <<>>

CallIsPVCBlockFromStore ==
    /\ op = "idle"
    /\ \E store \in ClaimStores, namespace \in Namespaces, claimName \in ClaimNames :
          /\ op' = "IsPVCBlockFromStore"
          /\ args' = [store |-> store, namespace |-> namespace, claimName |-> claimName]
          /\ ret' = IsPVCBlockFromStore(store, namespace, claimName)
          /\ calls' = <<<<"GetByKey", KeyOf(namespace, claimName)>>>>

CallVirtVolumesToPVCMap ==
    /\ op = "idle"
    /\ \E volumes \in VolumeLists, pvcStore \in ClaimStores, namespace \in Namespaces :
          LET r == VirtVolumesToPVCMap(volumes, pvcStore, namespace)
          IN  /\ op' = "VirtVolumesToPVCMap"
              /\ args' = [volumes |-> volumes, store |-> pvcStore, namespace |-> namespace]
              /\ ret' = [map |-> r.map, err |-> r.err]
              /\ calls' = r.calls

CallIsStaticallyProvisioned ==
    /\ op = "idle"
    /\ \E pvc \in ClaimsByClass :
          /\ op' = "IsStaticallyProvisioned"
          /\ args' = [pvc |-> pvc]
          /\ ret' = IsStaticallyProvisioned(pvc)
          /\ calls' = <<>>

CallIsDynamicallyProvisioned ==
    /\ op = "idle"
    /\ \E pvc \in ClaimsByClass :
          /\ op' = "IsDynamicallyProvisioned"
          /\ args' = [pvc |-> pvc]
          /\ ret' = IsDynamicallyProvisioned(pvc)
          /\ calls' = <<>>

CallGetStorageClass ==
    /\ op = "idle"
    /\ \E pvc \in ClaimsByClass, storageClassStore \in ClassStores :
          \E listing \in Listings(storageClassStore) :
              LET r == GetStorageClass(pvc, storageClassStore, listing)
              IN  /\ op' = "GetStorageClass"
                  /\ args' = [pvc |-> pvc, store |-> storageClassStore, listing |-> listing]
                  /\ ret' = [sc |-> r.sc, err |-> r.err]
                  /\ calls' = r.calls

CallIsWaitForFirstConsumer ==
    /\ op = "idle"
    /\ \E pvc \in ClaimsByClass, storageClassStore \in ClassStores :
          \E listing \in Listings(storageClassStore) :
              LET r == IsWaitForFirstConsumer(pvc, storageClassStore, listing)
              IN  /\ op' = "IsWaitForFirstConsumer"
                  /\ args' = [pvc |-> pvc, store |-> storageClassStore, listing |-> listing]
                  /\ ret' = [value |-> r.value, err |-> r.err]
                  /\ calls' = r.calls

CallIsPreallocated ==
    /\ op = "idle"
    /\ \E annotations \in AnnotationMaps :
          \E order \in Orders(DOMAIN annotations) :
              /\ op' = "IsPreallocated"
              /\ args' = [annotations |-> annotations, order |-> order]
              /\ ret' = IsPreallocated(annotations, order)
              /\ calls' = <<>>

NextClaims == CallIsPVCBlockFromStore \/ CallVirtVolumesToPVCMap

NextClasses ==
    \/ CallIsStaticallyProvisioned
    \/ CallIsDynamicallyProvisioned
    \/ CallGetStorageClass
    \/ CallIsWaitForFirstConsumer

NextAnnotations == CallIsPreallocated

Next == NextClaims \/ NextClasses \/ NextAnnotations

Spec == Init /\ [][Next]_vars

SpecClaims == Init /\ [][NextClaims]_vars

SpecClasses == Init /\ [][NextClasses]_vars

SpecAnnotations == Init /\ [][NextAnnotations]_vars

----------------------------------------------------------------------------
(* Properties *)

IsClaim(store, key) == key \in DOMAIN store /\ store[key].type = "PersistentVolumeClaim"

ErrKind(err) == IF err = None THEN "" ELSE err[1].kind

\* Why the volume fails against the store, "" if it does not.
VolumeFailure(store, namespace, volume) ==
    LET claimName == PVCNameFromVirtVolume(volume)
        key == namespace \o "/" \o claimName
    IN  IF claimName = "" THEN "unresolved"
        ELSE IF key \notin DOMAIN store THEN "absent"
        ELSE IF store[key] = Unreadable THEN "store error"
        ELSE IF store[key].type # "PersistentVolumeClaim" THEN "not a claim"
        ELSE ""

FailingVolumes(store, namespace, volumes) ==
    {i \in DOMAIN volumes : VolumeFailure(store, namespace, volumes[i]) # ""}

Lowest(S) == CHOOSE i \in S : \A j \in S : i <= j

\* The error VirtVolumesToPVCMap owes to a failing volume.
IsErrorFor(err, store, namespace, volume) ==
    LET why == VolumeFailure(store, namespace, volume)
        claimName == PVCNameFromVirtVolume(volume)
    IN  /\ err # None
        /\ why = "unresolved" =>
              err[1].kind = "MissingReference" /\ err[1].detail = <<volume.name>>
        /\ why = "absent" => err[1].kind = "NotFound" /\ err[1].detail = <<claimName>>
        /\ why = "store error" =>
              err[1].kind = "Wrapped" /\ ErrKind(err[1].cause) = "StoreError"
        /\ why = "not a claim" =>
              err[1].kind = "Wrapped" /\ ErrKind(err[1].cause) = "TypeMismatch"

\* C1: VirtVolumesToPVCMap takes the volumes in input order and stops at the
\* first one that fails (empty claim name, store error, claim absent, object
\* that is no claim): it then returns the error of that volume and a nil
\* mapping, having looked up the volumes before it and no volume after it.
\* With no failing volume it returns no error and a mapping whose keys are
\* exactly the volume names, each name mapped to the claim stored under
\* "<namespace>/<claim name>" of the volume bearing it (the last such volume
\* if a name is repeated).
C1_FailFastNoPartialMapping ==
    op = "VirtVolumesToPVCMap" =>
        LET volumes == args.volumes
            store == args.store
            namespace == args.namespace
            failing == FailingVolumes(store, namespace, volumes)
            keyOf(i) == namespace \o "/" \o PVCNameFromVirtVolume(volumes[i])
        IN  IF failing # {}
            THEN LET f == Lowest(failing)
                     looked == IF PVCNameFromVirtVolume(volumes[f]) = "" THEN f - 1 ELSE f
                 IN  /\ ret.map = None
                     /\ IsErrorFor(ret.err, store, namespace, volumes[f])
                     /\ calls = [i \in 1..looked |-> <<"GetByKey", keyOf(i)>>]
            ELSE /\ ret.err = None
                 /\ ret.map # None
                 /\ DOMAIN ret.map[1] = {volumes[i].name : i \in DOMAIN volumes}
                 /\ \A i \in DOMAIN volumes :
                       (\A j \in DOMAIN volumes : j > i => volumes[j].name # volumes[i].name)
                           => ret.map[1][volumes[i].name] = Some(store[keyOf(i)])
                 /\ calls = [i \in DOMAIN volumes |-> <<"GetByKey", keyOf(i)>>]

\* A call that fails on its second volume after the first was mapped.
C1_Witness_FailsOnSecondVolume ==
    /\ op = "VirtVolumesToPVCMap"
    /\ Len(args.volumes) = 2
    /\ FailingVolumes(args.store, args.namespace, args.volumes) = {2}
    /\ ret.map = None
    /\ ErrKind(ret.err) = "NotFound"

\* C2: GetStorageClass on a claim whose storage-class name is present and
\* empty returns (nil, nil) and makes no GetByKey and no List call, whatever
\* the store holds.
C2_StaticNeverTouchesStore ==
    (op = "GetStorageClass" /\ args.pvc.storageClassName = Some("")) =>
        /\ ret = [sc |-> None, err |-> None]
        /\ calls = <<>>

\* A static claim resolved against a store that holds a default class.
C2_Witness_StaticWithDefaultInStore ==
    /\ op = "GetStorageClass"
    /\ args.pvc.storageClassName = Some("")
    /\ \E i \in DOMAIN args.listing :
          /\ args.listing[i].type = "StorageClass"
          /\ MapGet(args.listing[i].annotations, DefaultClassAnnotation) = "true"
    /\ ret.sc = None

IsDefaultClass(obj) ==
    /\ obj.type = "StorageClass"
    /\ DefaultClassAnnotation \in DOMAIN obj.annotations
    /\ obj.annotations[DefaultClassAnnotation] = "true"

DefaultsListed(listing) == {i \in DOMAIN listing : IsDefaultClass(listing[i])}

MistypedListed(listing) == {i \in DOMAIN listing : listing[i].type # "StorageClass"}

\* C3 as stated: for a claim whose storage-class name is absent,
\* GetStorageClass returns the first default-annotated class of the listing
\* (the only one when there is exactly one) and (nil, nil) when the store
\* holds none.
C3_Original_DefaultAlwaysResolved ==
    (op = "GetStorageClass" /\ args.pvc.storageClassName = None) =>
        LET defaults == DefaultsListed(args.listing)
        IN  IF defaults = {}
            THEN ret = [sc |-> None, err |-> None]
            ELSE ret = [sc |-> Some(args.listing[Lowest(defaults)]), err |-> None]

\* C3 amended: the same, provided no object of another type is listed before
\* the first default-annotated class (nowhere in the listing when no class
\* is annotated).
C3_DefaultResolvedUnlessMistypedFirst ==
    (op = "GetStorageClass" /\ args.pvc.storageClassName = None) =>
        LET defaults == DefaultsListed(args.listing)
            mistyped == MistypedListed(args.listing)
        IN  /\ calls = <<<<"List">>>>
            /\ (defaults = {} /\ mistyped = {}) => ret = [sc |-> None, err |-> None]
            /\ (defaults # {} /\ \A i \in mistyped : i > Lowest(defaults)) =>
                  ret = [sc |-> Some(args.listing[Lowest(defaults)]), err |-> None]

\* Two default-annotated classes listed: the first listed is returned.
C3_Witness_FirstOfTwoDefaults ==
    /\ op = "GetStorageClass"
    /\ args.pvc.storageClassName = None
    /\ Cardinality(DefaultsListed(args.listing)) = 2
    /\ ret.sc = Some(args.listing[1])

\* C4 as stated: during default-class resolution, an object of another type
\* anywhere in the listing makes the call fail with TypeMismatch.
C4_Original_AnyMistypedFails ==
    (op = "GetStorageClass" /\ args.pvc.storageClassName = None
        /\ MistypedListed(args.listing) # {}) =>
        ErrKind(ret.err) = "TypeMismatch"

\* C4 amended: default-class resolution fails, with TypeMismatch, exactly
\* when an object of another type is listed before every default-annotated
\* class; an object of another type listed after a default-annotated class
\* is never reached and that class is returned.
C4_MistypedBeforeDefaultFails ==
    (op = "GetStorageClass" /\ args.pvc.storageClassName = None) =>
        LET defaults == DefaultsListed(args.listing)
            mistyped == MistypedListed(args.listing)
            reached == {i \in mistyped : \A d \in defaults : i < d}
        IN  /\ reached # {} => (ErrKind(ret.err) = "TypeMismatch" /\ ret.sc = None)
            /\ reached = {} => ret.err = None
            /\ (mistyped # {} /\ reached = {}) =>
                  ret.sc = Some(args.listing[Lowest(defaults)])

\* A non-default class, then an object of another type, then nothing found.
C4_Witness_MistypedAfterPlainClass ==
    /\ op = "GetStorageClass"
    /\ args.pvc.storageClassName = None
    /\ Len(args.listing) = 2
    /\ args.listing[1].type = "StorageClass"
    /\ args.listing[2].type # "StorageClass"
    /\ ErrKind(ret.err) = "TypeMismatch"

\* C5: for a claim whose storage-class name is present and non-empty,
\* GetStorageClass looks up exactly that name by key and never lists the
\* store: NotFound if the key is absent, TypeMismatch if the object stored is
\* no storage class, else that stored class and no error.
C5_NamedClassNeverFallsBack ==
    (op = "GetStorageClass" /\ args.pvc.storageClassName # None
        /\ args.pvc.storageClassName # Some("")) =>
        LET name == args.pvc.storageClassName[1]
            store == args.store
        IN  /\ calls = <<<<"GetByKey", name>>>>
            /\ name \notin DOMAIN store =>
                  (ErrKind(ret.err) = "NotFound" /\ ret.sc = None)
            /\ (name \in DOMAIN store /\ store[name].type = "Pod") =>
                  (ErrKind(ret.err) = "TypeMismatch" /\ ret.sc = None)
            /\ (name \in DOMAIN store /\ store[name].type = "StorageClass") =>
                  ret = [sc |-> Some(store[name]), err |-> None]

\* An unknown class name while the store holds a default class.
C5_Witness_UnknownNameWithDefaultInStore ==
    /\ op = "GetStorageClass"
    /\ args.pvc.storageClassName = Some("missing")
    /\ DefaultsListed(args.listing) # {}
    /\ ErrKind(ret.err) = "NotFound"

\* C6: IsWaitForFirstConsumer is true iff GetStorageClass resolves a non-nil
\* class whose volume-binding mode is present and WaitForFirstConsumer; it is
\* (false, nil) when the resolved class is nil (static provisioning, or no
\* name and no default class), and false with GetStorageClass's own error
\* when that call fails.
C6_WaitForFirstConsumer ==
    op = "IsWaitForFirstConsumer" =>
        LET r == GetStorageClass(args.pvc, args.store, args.listing)
            scn == args.pvc.storageClassName
        IN  /\ ret.value <=>
                  (/\ r.err = None
                   /\ r.sc # None
                   /\ r.sc[1].volumeBindingMode = Some("WaitForFirstConsumer"))
            /\ ret.err = r.err
            /\ r.err # None => ~ret.value
            /\ (r.err = None /\ r.sc = None) => ret = [value |-> FALSE, err |-> None]
            /\ scn = Some("") => ret = [value |-> FALSE, err |-> None]
            /\ (scn = None /\ DefaultsListed(args.listing) = {}
                    /\ MistypedListed(args.listing) = {}) =>
                  ret = [value |-> FALSE, err |-> None]
            /\ (scn # None /\ scn # Some("") /\ scn[1] \in DOMAIN args.store
                    /\ args.store[scn[1]].type = "StorageClass") =>
                  (ret.value <=>
                      args.store[scn[1]].volumeBindingMode = Some("WaitForFirstConsumer"))

\* A named class with WaitForFirstConsumer binding.
C6_Witness_NamedClassWaits ==
    /\ op = "IsWaitForFirstConsumer"
    /\ args.pvc.storageClassName # None
    /\ args.pvc.storageClassName # Some("")
    /\ ret = [value |-> TRUE, err |-> None]

\* C7: IsPVCBlockFromStore on key "<namespace>/<claimName>": key absent gives
\* no claim, exists false, isBlock false and no error; an object that is no
\* claim gives a TypeMismatch error; a claim gives that claim, exists true,
\* no error, and isBlock true iff its volume mode is present and Block.
C7_BlockDeviceLookup ==
    op = "IsPVCBlockFromStore" =>
        LET key == args.namespace \o "/" \o args.claimName
            store == args.store
        IN  /\ calls = <<<<"GetByKey", key>>>>
            /\ key \notin DOMAIN store =>
                  ret = [pvc |-> None, exists |-> FALSE, isBlockDevice |-> FALSE,
                         err |-> None]
            /\ (key \in DOMAIN store /\ store[key].type = "Pod") =>
                  ErrKind(ret.err) = "TypeMismatch"
            /\ IsClaim(store, key) =>
                  ret = [pvc |-> Some(store[key]), exists |-> TRUE, err |-> None,
                         isBlockDevice |-> (store[key].volumeMode = Some("Block"))]

\* A stored claim with no volume mode: found, and not a block device.
C7_Witness_ClaimWithoutVolumeMode ==
    /\ op = "IsPVCBlockFromStore"
    /\ ret.exists
    /\ ret.pvc # None
    /\ ret.pvc[1].volumeMode = None
    /\ ~ret.isBlockDevice

\* C8: IsStaticallyProvisioned is true exactly for a storage-class name that
\* is present and empty, IsDynamicallyProvisioned exactly for one that is
\* absent or present and non-empty; for every claim exactly one of the two
\* is true.
C8_StaticXorDynamic ==
    /\ op = "IsStaticallyProvisioned" =>
          /\ ret <=> args.pvc.storageClassName = Some("")
          /\ ret <=> ~IsDynamicallyProvisioned(args.pvc)
    /\ op = "IsDynamicallyProvisioned" =>
          /\ ret <=> (args.pvc.storageClassName = None
                         \/ (args.pvc.storageClassName # None
                                /\ args.pvc.storageClassName[1] # ""))
          /\ ret <=> ~IsStaticallyProvisioned(args.pvc)

\* A claim with no storage-class name is dynamically provisioned.
C8_Witness_AbsentNameIsDynamic ==
    /\ op = "IsDynamicallyProvisioned"
    /\ args.pvc.storageClassName = None
    /\ ret

\* s holds substr as a run of consecutive pieces.
HasSubstring(s, substr) ==
    \E i \in 1..(Len(s) - Len(substr) + 1) : SubSeq(s, i, i + Len(substr) - 1) = substr

IsHint(key) ==
    \/ HasSubstring(key, <<"/", "storage.preallocation">>)
    \/ HasSubstring(key, <<"/", "storage.thick-provisioned">>)

\* C9: IsPreallocated is true iff some annotation has a key containing
\* "/storage.preallocation" or "/storage.thick-provisioned" and itself the
\* value "true", in whatever order the annotations are iterated.
C9_PreallocatedIsDisjunction ==
    op = "IsPreallocated" =>
        (ret <=> \E a \in DOMAIN args.annotations :
                    IsHint(a) /\ args.annotations[a] = "true")

\* The hint is found on the second annotation iterated, after a hint whose
\* value is "false".
C9_Witness_HintFoundSecond ==
    /\ op = "IsPreallocated"
    /\ Len(args.order) = 2
    /\ IsHint(args.order[1])
    /\ args.annotations[args.order[1]] = "false"
    /\ ret

\* The key whose GetByKey failed during the call, if the call ended on one.
FailedKey ==
    IF op \in {"IsPVCBlockFromStore", "VirtVolumesToPVCMap", "GetStorageClass"}
          /\ calls # <<>>
          /\ calls[Len(calls)][1] = "GetByKey"
          /\ calls[Len(calls)][2] \in DOMAIN args.store
          /\ args.store[calls[Len(calls)][2]] = Unreadable
    THEN Some(calls[Len(calls)][2])
    ELSE None

\* C10 as stated: when the store's GetByKey fails, IsPVCBlockFromStore,
\* VirtVolumesToPVCMap and GetStorageClass return the store's error wrapped
\* with context naming the operation and the key.
C10_Original_StoreErrorWrappedWithKey ==
    FailedKey # None =>
        /\ ErrKind(ret.err) = "Wrapped"
        /\ ret.err[1].cause = Some(StoreError(FailedKey[1]))
        /\ ret.err[1].detail = <<FailedKey[1]>>

\* C10 amended: when the store's GetByKey fails the error is never dropped:
\* IsPVCBlockFromStore and GetStorageClass return the store's error itself,
\* unwrapped, and VirtVolumesToPVCMap returns it wrapped with "failed to get
\* PVC", a context that names the operation and not the key.
C10_StoreErrorNeverSwallowed ==
    FailedKey # None =>
        /\ op \in {"IsPVCBlockFromStore", "GetStorageClass"} =>
              ret.err = Some(StoreError(FailedKey[1]))
        /\ op = "VirtVolumesToPVCMap" =>
              /\ ErrKind(ret.err) = "Wrapped"
              /\ ret.err[1].msg = "failed to get PVC"
              /\ ret.err[1].detail = <<>>
              /\ ret.err[1].cause = Some(StoreError(FailedKey[1]))
              /\ ret.map = None

\* The second volume of a mapping call hits a key the store cannot read.
C10_Witness_MappingHitsStoreError ==
    /\ op = "VirtVolumesToPVCMap"
    /\ Len(calls) = 2
    /\ FailedKey # None
    /\ ErrKind(ret.err) = "Wrapped"

====
